---- MODULE Spec2Model ----
(***************************************************************************)
(* Model of app.py: the news pipeline of the Healthcare News Summarizer.   *)
(*                                                                         *)
(*   fetch_health_news      query construction, one search request per     *)
(*                          category, stamping, final sort                 *)
(*   summarize_news         grouping, prompt, completion call, bullets     *)
(*   fetch_and_display_news the Dash callback that calls both              *)
(*                                                                         *)
(* Representation.  A Python string that the code inspects is a sequence   *)
(* of chunks: a blank, a newline and each bullet marker are chunks of      *)
(* their own, any other chunk is an opaque run of ordinary characters.     *)
(* Concatenation is \o.  A value that may be None is a record with an      *)
(* isNone field.  A publishedAt value is an integer: Older and Newer stand *)
(* for two ISO-8601 strings in lexicographic order, EmptyStr for '',       *)
(* JsonNull for a key that is present with the JSON value null, NoKey for  *)
(* an absent key.                                                          *)
(***************************************************************************)
EXTENDS Integers, Sequences, FiniteSets, TLC

(* ------------------------------ bounds -------------------------------- *)

\* Longest list of selected categories a call is given.
MaxSelected == 2
\* Most elements all search responses of one call carry together.
MaxArticles == 2
\* Longest completion text of a direct summarize_news call, in chunks.
MaxText == 4
\* Longest article list a direct summarize_news call is given.
MaxDirect == 2
\* Longest article list of a direct call that exercises the grouping.
MaxGrouped == 3

(* --------------------------- Python values ---------------------------- *)

\* two publishedAt strings, Older < Newer as strings
Older == 1
Newer == 2
\* x.get('publishedAt', '') of an article without the key: '' < Older
EmptyStr == 0
\* an article object without a publishedAt key
NoKey == -1
\* "publishedAt": null
JsonNull == -2
\* an element of the articles array that is not a JSON object
NonObject == -3

PyNone == [isNone |-> TRUE, val |-> <<>>]
PyVal(v) == [isNone |-> FALSE, val |-> v]

Range(s) == {s[i] : i \in 1..Len(s)}

SeqsUpTo(S, n) == UNION {[1..k -> S] : k \in 0..n}

(* --------------------------- str operations --------------------------- *)

Whitespace == {" ", "\n"}

\* U+2022, the bullet character, written as an ASCII chunk
Dot == "u2022"

Bullets == {Dot, "-", "*"}

RECURSIVE LStripSet(_, _)
\* str.lstrip(chars): drop the leading chunks that are in chars
LStripSet(s, chars) ==
    IF s # <<>> /\ Head(s) \in chars THEN LStripSet(Tail(s), chars) ELSE s

RECURSIVE RStripSet(_, _)
RStripSet(s, chars) ==
    IF s # <<>> /\ s[Len(s)] \in chars
    THEN RStripSet(SubSeq(s, 1, Len(s) - 1), chars)
    ELSE s

\* str.strip()
Strip(s) == RStripSet(LStripSet(s, Whitespace), Whitespace)

RECURSIVE SplitLines(_)
\* str.split('\n'): always at least one piece
SplitLines(s) ==
    IF \A i \in 1..Len(s) : s[i] # "\n"
    THEN <<s>>
    ELSE LET i == CHOOSE j \in 1..Len(s) :
                    s[j] = "\n" /\ \A k \in 1..(j - 1) : s[k] # "\n"
         IN  <<SubSeq(s, 1, i - 1)>> \o SplitLines(SubSeq(s, i + 1, Len(s)))

RECURSIVE JoinWith(_, _)
\* sep.join(parts)
JoinWith(parts, sep) ==
    IF parts = <<>> THEN <<>>
    ELSE IF Len(parts) = 1 THEN parts[1]
    ELSE parts[1] \o sep \o JoinWith(Tail(parts), sep)

\* str.startswith((U+2022, '-', '*'))
StartsWithBullet(s) == s # <<>> /\ Head(s) \in Bullets

(* ------------------------------ CATEGORIES ---------------------------- *)

CATEGORIES ==
    [c \in {"EHR News", "Healthcare Technology", "Medical Research",
            "Health Policy", "Pharmaceuticals", "Public Health"} |->
        CASE c = "EHR News" ->
               "EHR OR 'Electronic Health Records' OR 'EHR systems' OR 'EHR implementation'"
          [] c = "Healthcare Technology" -> "healthcare technology OR digital health"
          [] c = "Medical Research" -> "medical research OR clinical trials"
          [] c = "Health Policy" -> "health policy OR healthcare reform"
          [] c = "Pharmaceuticals" -> "pharmaceuticals OR drug development"
          [] c = "Public Health" -> "public health OR disease prevention"]

SearchResults == "Search Results"

SearchOnlyFilter ==
    "(healthcare OR health OR medical OR EHR OR EMR OR technology OR business)"

CategoryFilter == " AND (healthcare OR health OR medical OR EHR OR EMR)"

(* ------------------------- fetch_health_news -------------------------- *)

\* faulty variant of HasSearchTerm: the test without .strip()
HasSearchTermNoStrip(search_term) ==
    ~search_term.isNone /\ search_term.val # <<>>

\* search_term and search_term.strip()
HasSearchTerm(search_term) ==
    ~search_term.isNone /\ search_term.val # <<>> /\ Strip(search_term.val) # <<>>

\* not selected_categories
NoCategories(selected) == selected.isNone \/ selected.val = <<>>

\* faulty variant of SearchPrefix: the term without its AND
SearchPrefixNoAnd(search_term) ==
    IF HasSearchTerm(search_term) THEN search_term.val \o <<" ">> ELSE <<>>

\* f"{search_term} AND " if (search_term and search_term.strip()) else ""
SearchPrefix(search_term) ==
    IF HasSearchTerm(search_term) THEN search_term.val \o <<" AND ">> ELSE <<>>

\* [f"({CATEGORIES[cat]})" for cat in categories if cat in CATEGORIES]
Fragments(cats) ==
    LET known == SelectSeq(cats, LAMBDA c : c \in DOMAIN CATEGORIES)
    IN  [i \in 1..Len(known) |-> <<"(", CATEGORIES[known[i]], ")">>]

\* lines 41-48: the labels to loop over and the one query of the call
CategoriesOf(selected) ==
    IF NoCategories(selected) THEN <<SearchResults>> ELSE selected.val

BuildQuery(selected, search_term) ==
    IF NoCategories(selected)
    THEN SearchPrefix(search_term) \o <<SearchOnlyFilter>>
    ELSE SearchPrefix(search_term)
            \o JoinWith(Fragments(selected.val), <<" OR ">>)
            \o <<CategoryFilter>>

\* line 53: the label is passed over without a request
SkipsCategory(category) ==
    category # SearchResults /\ category \notin DOMAIN CATEGORIES

\* key=lambda x: x.get('publishedAt', '')
SortKey(article) ==
    IF article.publishedAt = NoKey THEN EmptyStr ELSE article.publishedAt

\* list.sort compares keys with <; None < str, str < None and None < None raise
\* TypeError, and with two or more elements every element is compared
SortRaises(articles) ==
    Len(articles) >= 2 /\ \E i \in 1..Len(articles) : SortKey(articles[i]) = JsonNull

RECURSIVE InsertDesc(_, _)
\* place a after every element whose key is not smaller (stable, descending)
InsertDesc(sorted, a) ==
    IF sorted = <<>> THEN <<a>>
    ELSE IF SortKey(Head(sorted)) >= SortKey(a)
         THEN <<Head(sorted)>> \o InsertDesc(Tail(sorted), a)
         ELSE <<a>> \o sorted

RECURSIVE SortDesc(_)
\* all_articles.sort(key=..., reverse=True): stable, ties keep their order
SortDesc(articles) ==
    IF articles = <<>> THEN <<>>
    ELSE InsertDesc(SortDesc(SubSeq(articles, 1, Len(articles) - 1)),
                    articles[Len(articles)])

\* the leading elements of the articles array that are JSON objects: the
\* loop of lines 71-73 stamps and appends them one by one and stops at the
\* first element that does not support item assignment
RECURSIVE LeadingObjects(_)
LeadingObjects(body) ==
    IF body = <<>> \/ Head(body) = NonObject THEN <<>>
    ELSE <<Head(body)>> \o LeadingObjects(Tail(body))

\* article['category'] = category, for the elements the loop reaches
\* id stands for the rest of the object (title, description, url): it is the
\* article's position in arrival order
Stamped(body, category, base) ==
    LET objs == LeadingObjects(body)
    IN  [i \in 1..Len(objs) |->
            [id |-> base + i, publishedAt |-> objs[i], category |-> category]]

(* --------------------------- summarize_news --------------------------- *)

NoRecentNews == <<"No", " ", "recent", " ", "news", " ", "found.">>

ErrorSummary ==
    <<"Error", " ", "generating", " ", "summary.", " ", "Please", " ", "try",
      " ", "again", " ", "later.">>

Uncategorized == "Uncategorized"

\* an article without a category key
NoCategory == "<no category key>"

\* article.get('category', 'Uncategorized')
CategoryOf(article) ==
    IF article.category = NoCategory THEN Uncategorized ELSE article.category

RECURSIVE GroupByCategoryOverwrite(_, _)
\* faulty variant of GroupByCategory: a later article of a category replaces
\* the list of its group
GroupByCategoryOverwrite(groups, articles) ==
    IF articles = <<>> THEN groups
    ELSE LET a == Head(articles)
             c == CategoryOf(a)
             at == {i \in 1..Len(groups) : groups[i].category = c}
             added ==
                 IF at = {}
                 THEN Append(groups, [category |-> c, articles |-> <<a>>])
                 ELSE [groups EXCEPT ![CHOOSE i \in at : TRUE].articles = <<a>>]
         IN  GroupByCategoryOverwrite(added, Tail(articles))

RECURSIVE GroupByCategory(_, _)
\* lines 92-97: the dict articles_by_category as its items in insertion order
GroupByCategory(groups, articles) ==
    IF articles = <<>> THEN groups
    ELSE LET a == Head(articles)
             c == CategoryOf(a)
             at == {i \in 1..Len(groups) : groups[i].category = c}
             added ==
                 IF at = {}
                 THEN Append(groups, [category |-> c, articles |-> <<a>>])
                 ELSE [groups EXCEPT ![CHOOSE i \in at : TRUE].articles =
                                        Append(@, a)]
         IN  GroupByCategory(added, Tail(articles))

\* category_articles[:5]
PerCategoryLimit == 5

\* lines 100-107: per category a "## <category>" section with the first five
\* articles, behind the fixed instruction
PromptContent(articles) ==
    LET groups == GroupByCategory(<<>>, articles)
    IN  [i \in 1..Len(groups) |->
            [section |-> groups[i].category,
             articles |-> SubSeq(groups[i].articles, 1,
                 IF Len(groups[i].articles) < PerCategoryLimit
                 THEN Len(groups[i].articles) ELSE PerCategoryLimit)]]

\* [p.strip() for p in summary.split('\n') if p.strip()]
Points(summary) ==
    LET lines == SplitLines(summary)
        kept == SelectSeq(lines, LAMBDA p : Strip(p) # <<>>)
    IN  [i \in 1..Len(kept) |-> Strip(kept[i])]

\* faulty variant of FormatSummary: bullets added whatever the text starts with
FormatSummaryAlways(summary) ==
    LET points == Points(summary)
    IN  JoinWith([i \in 1..Len(points) |-> <<Dot, " ">> \o points[i]], <<"\n">>)

\* lines 127-130
FormatSummary(summary) ==
    IF ~StartsWithBullet(summary)
    THEN LET points == Points(summary)
         IN  JoinWith([i \in 1..Len(points) |-> <<Dot, " ">> \o points[i]],
                      <<"\n">>)
    ELSE summary

(* ----------------------- fetch_and_display_news ----------------------- *)

Message(text) == [text |-> text, detail |-> "", cards |-> <<>>]

\* lines 325-408: one card per article, in order
NewsOutput(articles) ==
    [text |-> "", detail |-> "",
     cards |-> [i \in 1..Len(articles) |->
                   [category |-> articles[i].category, id |-> articles[i].id]]]

\* lines 414-422: line.lstrip(bullets and blank).strip(), empty lines dropped
SummaryContent(summary) ==
    LET lines == Points(summary)
        clean == [i \in 1..Len(lines) |->
                     Strip(LStripSet(lines[i], Bullets \cup {" "}))]
    IN  SelectSeq(clean, LAMBDA l : l # <<>>)

Returned(news, summary, data) ==
    [state |-> "returned", news |-> news, summary |-> summary, data |-> data]

\* faulty variant of OnException: the exception leaves the handler
OnExceptionPropagate(e) ==
    [state |-> "raised", news |-> Message(e), summary |-> <<>>, data |-> PyNone]

\* lines 462-465: except Exception as e
OnException(e) ==
    Returned([text |-> "An error occurred while fetching news: ",
              detail |-> e, cards |-> <<>>], <<>>, PyNone)

\* line 322
NoArticlesFound(articles) ==
    Returned(Message("No articles found. Please try different categories or search terms."),
             <<>>, PyNone)

\* line 460
Rendered(articles, summary) ==
    Returned(NewsOutput(articles), SummaryContent(summary), PyVal(articles))

(* ------------------------------- state -------------------------------- *)

VARIABLES
    entry,                \* the function the caller invokes
    triggered,            \* dash.callback_context.triggered is non-empty
    api_key_set,          \* OPENAI_API_KEY is present in the environment
    selected_categories,  \* argument / State('category-selector', 'value')
    search_term,          \* argument / State('search-term', 'value')
    direct_articles,      \* argument of a direct summarize_news call
    pc,                   \* position of the one thread of control
    query,                \* fetch_health_news: query
    categories,           \* fetch_health_news: categories
    idx,                  \* fetch_health_news: position of the for loop
    all_articles,         \* fetch_health_news: all_articles
    net,                  \* the network calls made so far, as start/end events
    fetch_result,         \* how fetch_health_news ended
    summarize_result,     \* how summarize_news ended
    handler_result        \* how fetch_and_display_news ended

vars == <<entry, triggered, api_key_set, selected_categories, search_term,
          direct_articles, pc, query, categories, idx, all_articles, net,
          fetch_result, summarize_result, handler_result>>

inputs == <<entry, triggered, api_key_set, selected_categories, search_term,
            direct_articles>>

NotEnded == [state |-> "none", val |-> <<>>]
Ended(state, val) == [state |-> state, val |-> val]

NoResult ==
    [state |-> "none", news |-> Message(""), summary |-> <<>>, data |-> PyNone]

\* labels a caller may pass: two keys of CATEGORIES, the pseudo-category and
\* a label that is no key
Labels == {"EHR News", "Health Policy", SearchResults, "Sports"}

\* a checklist value holds each label once
Selections ==
    {PyNone} \cup
    {PyVal(s) : s \in {t \in SeqsUpTo(Labels, MaxSelected) :
                          \A i, j \in 1..Len(t) : t[i] = t[j] => i = j}}

Terms ==
    {PyNone, PyVal(<<>>), PyVal(<<" ">>), PyVal(<<"Epic", " ", "EHR">>)}

\* the publishedAt of an object of a response's articles array
Objects == {NoKey, JsonNull, Older, Newer}

\* the articles arrays of a response: objects, or objects up to an element
\* that is no object (what follows it is never read)
Bodies ==
    LET objs == SeqsUpTo(Objects, MaxArticles)
    IN  objs \cup {Append(b, NonObject) : b \in objs}

\* completion texts of a handler invocation
SampleTexts == {<<"a", "\n", " ", "\n", "*", "b">>, <<"-", " ", "a", "\n", "b">>}

\* completion texts of a direct summarize_news call
Alphabet == {Dot, "-", " ", "\n", "a"}

Texts == SeqsUpTo(Alphabet, MaxText)

\* article lists of a direct summarize_news call
DirectLists ==
    {[i \in 1..Len(cs) |-> [id |-> i, publishedAt |-> NoKey, category |-> cs[i]]] :
        cs \in SeqsUpTo({"EHR News", "Health Policy"}, MaxDirect)}

Blank ==
    /\ query = <<>>
    /\ categories = <<>>
    /\ idx = 1
    /\ all_articles = <<>>
    /\ net = <<>>
    /\ fetch_result = NotEnded
    /\ summarize_result = NotEnded
    /\ handler_result = NoResult

\* a click on the button: Dash calls fetch_and_display_news
Init ==
    /\ entry = "fetch_and_display_news"
    /\ triggered \in BOOLEAN
    /\ api_key_set \in BOOLEAN
    /\ selected_categories \in Selections
    /\ search_term \in Terms
    /\ direct_articles = <<>>
    /\ pc = "handler"
    /\ Blank

\* a direct call of fetch_health_news
InitFetch ==
    /\ entry = "fetch_health_news"
    /\ triggered = TRUE
    /\ api_key_set = TRUE
    /\ selected_categories \in Selections
    /\ search_term \in Terms
    /\ direct_articles = <<>>
    /\ pc = "fetch"
    /\ Blank

\* article lists of a direct summarize_news call that exercise the grouping:
\* two labels and articles without a category key
GroupLists ==
    {[i \in 1..Len(cs) |-> [id |-> i, publishedAt |-> NoKey, category |-> cs[i]]] :
        cs \in SeqsUpTo({"EHR News", "Health Policy", NoCategory}, MaxGrouped)}

\* a direct call of summarize_news with such a list
InitGroup ==
    /\ entry = "summarize_news"
    /\ triggered = TRUE
    /\ api_key_set \in BOOLEAN
    /\ selected_categories = PyNone
    /\ search_term = PyNone
    /\ direct_articles \in GroupLists
    /\ pc = "summarize"
    /\ Blank

\* a direct call of summarize_news
InitSummarize ==
    /\ entry = "summarize_news"
    /\ triggered = TRUE
    /\ api_key_set \in BOOLEAN
    /\ selected_categories = PyNone
    /\ search_term = PyNone
    /\ direct_articles \in DirectLists
    /\ pc = "summarize"
    /\ Blank

(* ------------------------- fetch_health_news -------------------------- *)

\* lines 29-48
FetchBegin ==
    /\ pc = "fetch"
    /\ LET sel == IF entry = "fetch_and_display_news" /\ NoCategories(selected_categories)
                  THEN PyVal(<<>>)      \* selected_categories or []
                  ELSE selected_categories
       IN  IF NoCategories(sel) /\ ~HasSearchTerm(search_term)
           THEN /\ fetch_result' = Ended("returned", <<>>)
                /\ pc' = "fetch_return"
                /\ UNCHANGED <<query, categories>>
           ELSE /\ query' = BuildQuery(sel, search_term)
                /\ categories' = CategoriesOf(sel)
                /\ pc' = "loop"
                /\ UNCHANGED fetch_result
    /\ UNCHANGED <<inputs, idx, all_articles, net, summarize_result, handler_result>>

\* lines 51-54: continue
SkipCategory ==
    /\ pc = "loop"
    /\ idx <= Len(categories)
    /\ SkipsCategory(categories[idx])
    /\ idx' = idx + 1
    /\ UNCHANGED <<inputs, pc, query, categories, all_articles, net,
                   fetch_result, summarize_result, handler_result>>

\* lines 56-66: requests.get(url, params=params, timeout=10) goes out
SendRequest ==
    /\ pc = "loop"
    /\ idx <= Len(categories)
    /\ ~SkipsCategory(categories[idx])
    /\ net' = Append(net, [ev |-> "search_start", category |-> categories[idx],
                           q |-> query])
    /\ pc' = "await"
    /\ UNCHANGED <<inputs, query, categories, idx, all_articles,
                   fetch_result, summarize_result, handler_result>>

\* ok: the try block ran to its end; ids: the articles this response added
\* to all_articles
SearchEnd(ok, ids) ==
    [ev |-> "search_end", category |-> categories[idx], ok |-> ok, ids |-> ids]

\* lines 66-68, 77-79: timeout, connection error, non-2xx status, a body
\* that is no JSON or that holds no articles array: nothing is appended
SearchFails ==
    /\ pc = "await"
    /\ net' = Append(net, SearchEnd(FALSE, {}))
    /\ idx' = idx + 1
    /\ pc' = "loop"
    /\ UNCHANGED <<inputs, query, categories, all_articles,
                   fetch_result, summarize_result, handler_result>>

\* lines 68-79: a 2xx response whose body parses to an articles array; an
\* element that is no object raises in line 72, after the elements before
\* it were appended
SearchReturns(body) ==
    /\ pc = "await"
    /\ Len(all_articles) + Len(body) <= MaxArticles
    /\ LET new == Stamped(body, categories[idx], Len(all_articles))
       IN  /\ all_articles' = all_articles \o new
           /\ net' = Append(net,
                  SearchEnd(NonObject \notin Range(body),
                            {new[i].id : i \in 1..Len(new)}))
    /\ idx' = idx + 1
    /\ pc' = "loop"
    /\ UNCHANGED <<inputs, query, categories,
                   fetch_result, summarize_result, handler_result>>

\* lines 81-84
SortAndReturn ==
    /\ pc = "loop"
    /\ idx > Len(categories)
    /\ IF SortRaises(all_articles)
       THEN /\ fetch_result' = Ended("raised", <<>>)
            /\ UNCHANGED all_articles
       ELSE /\ all_articles' = SortDesc(all_articles)
            /\ fetch_result' = Ended("returned", all_articles')
    /\ pc' = "fetch_return"
    /\ UNCHANGED <<inputs, query, categories, idx, net, summarize_result,
                   handler_result>>

(* --------------------------- summarize_news --------------------------- *)

\* the list summarize_news is called with
Articles ==
    IF entry = "summarize_news" THEN direct_articles ELSE fetch_result.val

\* lines 87-121: the empty list returns at once; otherwise the prompt is
\* built and openai.OpenAI(api_key=OPENAI_API_KEY) is constructed before the
\* try block: without a key the constructor raises OpenAIError
SummarizeBegin ==
    /\ pc = "summarize"
    /\ IF Articles = <<>>
       THEN /\ summarize_result' = Ended("returned", NoRecentNews)
            /\ pc' = "summarize_return"
            /\ UNCHANGED net
       ELSE IF ~api_key_set
       THEN /\ summarize_result' = Ended("raised", <<>>)
            /\ pc' = "summarize_return"
            /\ UNCHANGED net
       ELSE /\ net' = Append(net, [ev |-> "completion_start",
                                   groups |-> GroupByCategory(<<>>, Articles),
                                   content |-> PromptContent(Articles)])
            /\ pc' = "await_completion"
            /\ UNCHANGED summarize_result
    /\ UNCHANGED <<inputs, query, categories, idx, all_articles, fetch_result,
                   handler_result>>

\* lines 114-127, 134-136: the call raises (authentication, rate limit,
\* network), or the response has no text (no choices, content None)
CompletionFails ==
    /\ pc = "await_completion"
    /\ net' = Append(net, [ev |-> "completion_end", ok |-> FALSE, text |-> <<>>])
    /\ summarize_result' = Ended("returned", ErrorSummary)
    /\ pc' = "summarize_return"
    /\ UNCHANGED <<inputs, query, categories, idx, all_articles, fetch_result,
                   handler_result>>

\* lines 124-132
CompletionReturns(text) ==
    /\ pc = "await_completion"
    /\ net' = Append(net, [ev |-> "completion_end", ok |-> TRUE, text |-> text])
    /\ summarize_result' = Ended("returned", FormatSummary(text))
    /\ pc' = "summarize_return"
    /\ UNCHANGED <<inputs, query, categories, idx, all_articles, fetch_result,
                   handler_result>>

(* ----------------------- fetch_and_display_news ----------------------- *)

\* lines 295-319
HandlerBegin ==
    /\ pc = "handler"
    /\ IF ~triggered
       THEN /\ handler_result' =
                   Returned(Message("Error: No callback context available."),
                            <<>>, PyNone)
            /\ pc' = "done"
       ELSE IF NoCategories(selected_categories) /\ ~HasSearchTerm(search_term)
       THEN /\ handler_result' =
                   Returned(Message("Select categories or enter a search term and click 'Fetch News' to begin."),
                            <<>>, PyNone)
            /\ pc' = "done"
       ELSE /\ pc' = "fetch"
            /\ UNCHANGED handler_result
    /\ UNCHANGED <<inputs, query, categories, idx, all_articles, net,
                   fetch_result, summarize_result>>

\* lines 319-322, 462-465: fetch_health_news is back
HandlerAfterFetch ==
    /\ pc = "fetch_return"
    /\ entry = "fetch_and_display_news"
    /\ IF fetch_result.state = "raised"
       THEN /\ handler_result' = OnException("TypeError")
            /\ pc' = "done"
       ELSE IF fetch_result.val = <<>>
       THEN /\ handler_result' = NoArticlesFound(fetch_result.val)
            /\ pc' = "done"
       ELSE /\ pc' = "summarize"
            /\ UNCHANGED handler_result
    /\ UNCHANGED <<inputs, query, categories, idx, all_articles, net,
                   fetch_result, summarize_result>>

\* lines 411-465: summarize_news is back
HandlerFinish ==
    /\ pc = "summarize_return"
    /\ entry = "fetch_and_display_news"
    /\ handler_result' =
          IF summarize_result.state = "raised"
          THEN OnException("OpenAIError")
          ELSE Rendered(fetch_result.val, summarize_result.val)
    /\ pc' = "done"
    /\ UNCHANGED <<inputs, query, categories, idx, all_articles, net,
                   fetch_result, summarize_result>>

(* --------------------------- specifications --------------------------- *)

Next ==
    \/ HandlerBegin
    \/ FetchBegin
    \/ SkipCategory
    \/ SendRequest
    \/ SearchFails
    \/ \E body \in Bodies : SearchReturns(body)
    \/ SortAndReturn
    \/ HandlerAfterFetch
    \/ SummarizeBegin
    \/ CompletionFails
    \/ \E text \in SampleTexts : CompletionReturns(text)
    \/ HandlerFinish

Spec == Init /\ [][Next]_vars

NextFetch ==
    \/ FetchBegin
    \/ SkipCategory
    \/ SendRequest
    \/ SearchFails
    \/ \E body \in Bodies : SearchReturns(body)
    \/ SortAndReturn

SpecFetch == InitFetch /\ [][NextFetch]_vars

NextSummarize ==
    \/ SummarizeBegin
    \/ CompletionFails
    \/ \E text \in Texts : CompletionReturns(text)

SpecSummarize == InitSummarize /\ [][NextSummarize]_vars

NextGroup ==
    \/ SummarizeBegin
    \/ CompletionFails
    \/ \E text \in SampleTexts : CompletionReturns(text)

SpecGroup == InitGroup /\ [][NextGroup]_vars

(* ------------------------- reading the state -------------------------- *)

SearchStarts == SelectSeq(net, LAMBDA e : e.ev = "search_start")

SearchEnds == SelectSeq(net, LAMBDA e : e.ev = "search_end")

CompletionStarts == SelectSeq(net, LAMBDA e : e.ev = "completion_start")

CompletionEnds == SelectSeq(net, LAMBDA e : e.ev = "completion_end")

\* the caller gave no category
NoneSelected == selected_categories.isNone \/ Len(selected_categories.val) = 0

\* the caller gave no term, or one made of white space only
TermBlank ==
    search_term.isNone \/ \A i \in 1..Len(search_term.val) : search_term.val[i] \in {" ", "\n"}

FetchReturned == pc = "fetch_return" /\ fetch_result.state = "returned"

(* -------------------------------- C1 ---------------------------------- *)

\* C1: whenever fetch_health_news is called with no category (an empty list
\* or None) and a term that is None, empty or white space only, no search
\* request is ever issued and the call returns the empty list.
C1_NoInputNoRequest ==
    (NoneSelected /\ TermBlank) =>
        /\ net = <<>>
        /\ pc \in {"fetch", "fetch_return"}
        /\ pc = "fetch_return" => fetch_result = Ended("returned", <<>>)

\* a call with None for the categories and a blank for the term has returned
C1_Witness ==
    /\ selected_categories = PyNone
    /\ search_term = PyVal(<<" ">>)
    /\ pc = "fetch_return"
    /\ fetch_result = Ended("returned", <<>>)
    /\ net = <<>>

(* -------------------------------- C2 ---------------------------------- *)

\* the ids of the articles in a list
IdsOf(articles) == {articles[i].id : i \in 1..Len(articles)}

\* the ids of the articles that came with the responses handled without a
\* failure
IdsOfSucceeded ==
    UNION {SearchEnds[i].ids : i \in {j \in 1..Len(SearchEnds) : SearchEnds[j].ok}}

\* C2: a failed search request of one category neither ends the loop nor
\* raises (the loop goes on to the next category, so that every category
\* that is not skipped is requested), and the list that is returned holds
\* exactly the articles of the requests that succeeded.
C2_FailureIsolated ==
    /\ (net # <<>> /\ net[Len(net)].ev = "search_end" /\ ~net[Len(net)].ok) =>
           \/ pc = "loop" /\ fetch_result = NotEnded
           \/ pc = "fetch_return" /\ idx > Len(categories)
    /\ pc = "fetch_return" /\ categories # <<>> =>
           Len(SearchStarts) =
               Len(SelectSeq(categories, LAMBDA c : ~SkipsCategory(c)))
    /\ FetchReturned => IdsOf(fetch_result.val) = IdsOfSucceeded

(* -------------------------------- C3 ---------------------------------- *)

\* the completion step did not produce a text: the client could not be
\* built, or the call failed or gave no usable response
CompletionStepFailed ==
    \/ summarize_result.state = "raised"
    \/ \E i \in 1..Len(CompletionEnds) : ~CompletionEnds[i].ok
    \/ pc = "summarize_return" /\ Articles # <<>> /\ CompletionEnds = <<>>

\* C3: for a non-empty article list summarize_news never ends with an
\* exception, and whenever the completion step failed (an absent API key
\* included) it returns the fixed error string.
C3_FailureBecomesString ==
    (Articles # <<>> /\ pc \in {"summarize_return", "done"}) =>
        /\ summarize_result.state = "returned"
        /\ CompletionStepFailed => summarize_result.val = ErrorSummary

(* -------------------------------- C5 ---------------------------------- *)

\* the labels of the selection that are no key of CATEGORIES
UnknownSelected ==
    IF selected_categories.isNone THEN {}
    ELSE {selected_categories.val[i] : i \in 1..Len(selected_categories.val)}
            \ DOMAIN CATEGORIES

\* C5: a selected label that is no key of CATEGORIES ("Search Results"
\* included) gets no search request, labels no collected article and raises
\* nothing.
C5_UnknownSkipped ==
    \A c \in UnknownSelected :
        /\ \A i \in 1..Len(net) : net[i].ev = "search_start" => net[i].category # c
        /\ \A i \in 1..Len(all_articles) : all_articles[i].category # c
        /\ (pc = "loop" /\ idx <= Len(categories) /\ categories[idx] = c) =>
               fetch_result = NotEnded

(* -------------------------------- C6 ---------------------------------- *)

\* the publishedAt string an article is ordered by: '' when it has none
StampOrEmpty(a) == IF a.publishedAt \in {NoKey, JsonNull} THEN 0 ELSE a.publishedAt

\* C6: fetch_health_news always returns (the sort never raises), and the
\* list it returns is in non-increasing publishedAt order, an article
\* without a timestamp counting as '', with equal timestamps in fetch order.
C6_SortedNewestFirst ==
    pc = "fetch_return" =>
        /\ fetch_result.state = "returned"
        /\ \A i, j \in 1..Len(fetch_result.val) :
              i < j =>
                 /\ StampOrEmpty(fetch_result.val[i]) >= StampOrEmpty(fetch_result.val[j])
                 /\ StampOrEmpty(fetch_result.val[i]) = StampOrEmpty(fetch_result.val[j])
                       => fetch_result.val[i].id < fetch_result.val[j].id

(* -------------------------------- C7 ---------------------------------- *)

\* the term followed by " AND " when the term is not blank, else nothing
ExpectedTermPart ==
    IF TermBlank THEN <<>> ELSE search_term.val \o <<" AND ">>

RECURSIVE ExpectedFragments(_, _)
\* (fragment) OR (fragment) ... over the known labels of a selection, read
\* from the left; first tells whether a fragment was already written
ExpectedFragments(labels, first) ==
    IF labels = <<>> THEN <<>>
    ELSE IF Head(labels) \notin DOMAIN CATEGORIES
         THEN ExpectedFragments(Tail(labels), first)
         ELSE (IF first THEN <<>> ELSE <<" OR ">>)
                 \o <<"(", CATEGORIES[Head(labels)], ")">>
                 \o ExpectedFragments(Tail(labels), FALSE)

\* the query string the claim describes for the arguments of the call
ExpectedQuery ==
    IF NoneSelected
    THEN ExpectedTermPart
            \o <<"(healthcare OR health OR medical OR EHR OR EMR OR technology OR business)">>
    ELSE ExpectedTermPart
            \o ExpectedFragments(selected_categories.val, TRUE)
            \o <<" AND (healthcare OR health OR medical OR EHR OR EMR)">>

\* C7: every search request of a call carries the query the claim describes:
\* the term and " AND " when the term is not blank, then the parenthesised
\* fragments of the selected known categories joined by " OR " and the
\* five-word health filter, or, with no category, the seven-word filter, in
\* which case there is one request only, labelled "Search Results".
C7_QueryString ==
    /\ \A i \in 1..Len(SearchStarts) : SearchStarts[i].q = ExpectedQuery
    /\ NoneSelected =>
          /\ Len(SearchStarts) <= 1
          /\ \A i \in 1..Len(SearchStarts) : SearchStarts[i].category = "Search Results"
          /\ (pc = "fetch_return" /\ ~TermBlank) => Len(SearchStarts) = 1
    /\ (selected_categories = PyVal(<<"EHR News">>) /\ search_term = PyVal(<<>>)) =>
          \A i \in 1..Len(SearchStarts) :
              SearchStarts[i].q =
                 <<"(",
                   "EHR OR 'Electronic Health Records' OR 'EHR systems' OR 'EHR implementation'",
                   ")", " AND (healthcare OR health OR medical OR EHR OR EMR)">>

\* two known categories and a term: both requests are out
C7_Witness ==
    /\ selected_categories = PyVal(<<"Health Policy", "EHR News">>)
    /\ search_term = PyVal(<<"Epic", " ", "EHR">>)
    /\ Len(SearchStarts) = 2
    /\ SearchStarts[2].q =
          <<"Epic", " ", "EHR", " AND ",
            "(", "health policy OR healthcare reform", ")", " OR ",
            "(", "EHR OR 'Electronic Health Records' OR 'EHR systems' OR 'EHR implementation'", ")",
            " AND (healthcare OR health OR medical OR EHR OR EMR)">>

(* -------------------------------- C8 ---------------------------------- *)

\* the labels of the selection that are keys of CATEGORIES, in order
KnownSelected ==
    IF selected_categories.isNone THEN <<>>
    ELSE SelectSeq(selected_categories.val, LAMBDA c : c \in DOMAIN CATEGORIES)

\* the labels the claim expects a search request for, in order
ExpectedRequests ==
    IF NoneSelected THEN (IF TermBlank THEN <<>> ELSE <<"Search Results">>)
    ELSE KnownSelected

\* C8: the network calls of one handler invocation come one after the other:
\* a call starts only when the one before has ended; the search requests are
\* those of the selected known categories, one each, in selection order (one
\* in all for a term without categories), none a second time; there is at
\* most one completion request and it starts after the last search request
\* has ended.
C8_SequentialNoRetry ==
    /\ \A i \in 1..Len(net) :
          /\ net[i].ev = "search_start" => (i = 1 \/ net[i - 1].ev = "search_end")
          /\ net[i].ev = "search_end" =>
                (i > 1 /\ net[i - 1].ev = "search_start"
                       /\ net[i - 1].category = net[i].category)
          /\ net[i].ev = "completion_start" =>
                (i > 1 /\ net[i - 1].ev = "search_end"
                       /\ Len(SearchEnds) = Len(ExpectedRequests))
          /\ net[i].ev = "completion_end" =>
                (i > 1 /\ net[i - 1].ev = "completion_start")
    /\ Len(CompletionStarts) <= 1
    /\ Len(SearchStarts) <= Len(ExpectedRequests)
    /\ \A i \in 1..Len(SearchStarts) :
          i <= Len(ExpectedRequests) => SearchStarts[i].category = ExpectedRequests[i]
    /\ pc \in {"fetch_return", "summarize", "await_completion", "summarize_return", "done"}
          /\ fetch_result # NotEnded /\ categories # <<>>
          => Len(SearchStarts) = Len(ExpectedRequests)

(* -------------------------------- C9 ---------------------------------- *)

RECURSIVE CountOfSucceeded(_)
\* the sum of the article counts of the responses handled without a failure
CountOfSucceeded(ends) ==
    IF ends = <<>> THEN 0
    ELSE (IF Head(ends).ok THEN Cardinality(Head(ends).ids) ELSE 0)
            + CountOfSucceeded(Tail(ends))

\* C9: every collected article carries the label of the request whose
\* response brought it; while the loop runs the collection only grows at its
\* end (the articles stay in arrival order, none is lost or relabelled); and
\* the list that is returned is as long as the article counts of the
\* successful responses taken together.
C9_AppendOnly ==
    /\ \A i \in 1..Len(all_articles) :
          \E k \in 1..Len(SearchEnds) :
              /\ all_articles[i].id \in SearchEnds[k].ids
              /\ all_articles[i].category = SearchEnds[k].category
    /\ pc \in {"loop", "await"} =>
          \A i \in 1..Len(all_articles) : all_articles[i].id = i
    /\ FetchReturned => Len(fetch_result.val) = CountOfSucceeded(SearchEnds)

(* -------------------------------- C4 ---------------------------------- *)

CompletionFailed == \E i \in 1..Len(CompletionEnds) : ~CompletionEnds[i].ok

\* the invocation ran into one of the failures the claim lists: no trigger,
\* no input, no articles, fetch_health_news or summarize_news raising, the
\* completion call failing
FailureOccurred ==
    \/ ~triggered
    \/ NoneSelected /\ TermBlank
    \/ fetch_result.state = "raised"
    \/ fetch_result = Ended("returned", <<>>)
    \/ summarize_result.state = "raised"
    \/ CompletionFailed

\* C4 as stated: the handler never ends with an exception, and after any of
\* the listed failures the third value it returns is None.
C4_FailureGivesNoData ==
    /\ handler_result.state # "raised"
    /\ pc = "done" /\ FailureOccurred => handler_result.data = PyNone

\* C4 as amended: the handler never ends with an exception; it returns a
\* plain message, an empty summary and None exactly when there is no
\* trigger, no input, no article, or an exception reached its except clause;
\* when only the completion call failed it returns the article cards, the
\* fixed error string as the one summary line and the article list as data.
C4_HandlerNeverRaises ==
    /\ handler_result.state # "raised"
    /\ pc = "done" =>
          /\ handler_result.state = "returned"
          /\ handler_result.data = PyNone <=>
                \/ ~triggered
                \/ NoneSelected /\ TermBlank
                \/ fetch_result.state = "raised"
                \/ fetch_result = Ended("returned", <<>>)
                \/ summarize_result.state = "raised"
          /\ handler_result.data = PyNone =>
                /\ handler_result.summary = <<>>
                /\ handler_result.news.cards = <<>>
                /\ handler_result.news.text # ""
          /\ handler_result.data # PyNone =>
                /\ handler_result.data = PyVal(fetch_result.val)
                /\ Len(handler_result.news.cards) = Len(fetch_result.val)
          /\ CompletionFailed =>
                /\ handler_result.data = PyVal(fetch_result.val)
                /\ handler_result.summary = <<ErrorSummary>>

\* the completion call failed and the handler has returned the articles
C4_Witness ==
    /\ pc = "done"
    /\ CompletionFailed
    /\ handler_result.state = "returned"
    /\ handler_result.data # PyNone
    /\ handler_result.summary = <<ErrorSummary>>

(* -------------------------------- C10 --------------------------------- *)

\* the lines of a text that hold something other than white space: a line
\* is counted at its first such chunk
NonBlankLineCount(text) ==
    Cardinality({i \in 1..Len(text) :
        /\ text[i] \notin {" ", "\n"}
        /\ \A j \in 1..(i - 1) :
              (\A k \in j..i : text[k] # "\n") => text[j] \in {" ", "\n"}})

\* the lines of a text that start with a bullet marker
BulletLineCount(text) ==
    Cardinality({i \in 1..Len(text) :
        /\ text[i] \in {Dot, "-", "*"}
        /\ (i = 1 \/ text[i - 1] = "\n")})

\* the completion text of the call, once it is there
CompletionText == CompletionEnds[1].text

SummaryReturned ==
    /\ pc = "summarize_return"
    /\ CompletionEnds # <<>>
    /\ CompletionEnds[1].ok

\* C10 as stated (a non-empty line read as a line that is not blank): the
\* summary has as many bullet-marked lines as the completion text has
\* non-empty lines.
C10_BulletPerLine ==
    SummaryReturned =>
        BulletLineCount(summarize_result.val) = NonBlankLineCount(CompletionText)

\* C10 as amended: a completion text that starts with a bullet marker is
\* returned as it is; any other text becomes one line per line of the text
\* that is not blank, each starting with the bullet character, so that the
\* bullet-marked lines are as many as the non-blank lines of the text.
C10_BulletPerLineUnlessBulleted ==
    SummaryReturned =>
        IF CompletionText # <<>> /\ CompletionText[1] \in {Dot, "-", "*"}
        THEN summarize_result.val = CompletionText
        ELSE /\ BulletLineCount(summarize_result.val) = NonBlankLineCount(CompletionText)
             /\ NonBlankLineCount(summarize_result.val) = NonBlankLineCount(CompletionText)
             /\ \A i \in 1..Len(summarize_result.val) :
                   (i = 1 \/ summarize_result.val[i - 1] = "\n") =>
                       summarize_result.val[i] = Dot

\* a text of two lines around an empty one, not starting with a marker, has
\* become two bullet lines
C10_Witness ==
    /\ SummaryReturned
    /\ CompletionText = <<"a", "\n", "\n", "a">>
    /\ summarize_result.val = <<Dot, " ", "a", "\n", Dot, " ", "a">>

(* -------------------------------- C11 --------------------------------- *)

\* articles_by_category as summarize_news built it
Grouped == CompletionStarts[1].groups

\* the label the claim gives an article: its category, 'Uncategorized'
\* without one
ExpectedLabel(a) ==
    IF a.category = "<no category key>" THEN "Uncategorized" ELSE a.category

\* the position in the input list of the first article with a label
FirstSeen(label) ==
    CHOOSE i \in 1..Len(Articles) :
        /\ ExpectedLabel(Articles[i]) = label
        /\ \A j \in 1..(i - 1) : ExpectedLabel(Articles[j]) # label

\* C11: for a non-empty article list the grouping of summarize_news is
\* lossless and keeps the order: every input article is in exactly one
\* group, at one position, and that group is the one of its label
\* ('Uncategorized' without a category key); the groups hold nothing else;
\* the groups come in the order their labels are first seen in the input,
\* and the articles of a group are in input order.
C11_GroupingLossless ==
    (Articles # <<>> /\ CompletionStarts # <<>>) =>
        /\ \A i \in 1..Len(Articles) :
              Cardinality({kj \in {<<k, j>> : k \in 1..Len(Grouped),
                                              j \in 1..Len(Articles)} :
                              /\ kj[2] <= Len(Grouped[kj[1]].articles)
                              /\ Grouped[kj[1]].articles[kj[2]] = Articles[i]}) = 1
        /\ \A k \in 1..Len(Grouped) :
              /\ Grouped[k].articles # <<>>
              /\ \A j \in 1..Len(Grouped[k].articles) :
                    /\ \E i \in 1..Len(Articles) : Articles[i] = Grouped[k].articles[j]
                    /\ ExpectedLabel(Grouped[k].articles[j]) = Grouped[k].category
              /\ \A j1, j2 \in 1..Len(Grouped[k].articles) :
                    j1 < j2 => Grouped[k].articles[j1].id < Grouped[k].articles[j2].id
        /\ \A k1, k2 \in 1..Len(Grouped) :
              k1 < k2 =>
                 /\ Grouped[k1].category # Grouped[k2].category
                 /\ FirstSeen(Grouped[k1].category) < FirstSeen(Grouped[k2].category)

\* a list whose second article has no category key and whose third goes
\* back to the category of the first has been grouped
C11_Witness ==
    /\ CompletionStarts # <<>>
    /\ Len(Articles) = 3
    /\ Articles[1].category = "Health Policy"
    /\ Articles[2].category = NoCategory
    /\ Articles[3].category = "Health Policy"
    /\ Grouped = <<[category |-> "Health Policy",
                    articles |-> <<Articles[1], Articles[3]>>],
                   [category |-> "Uncategorized", articles |-> <<Articles[2]>>]>>

====
